---- MODULE Spec2Model ----
(***************************************************************************)
(* A model of the OsmRequest facade (src/src/index.js): its configuration, *)
(* the requests it issues, and the element mutators.  JavaScript objects   *)
(* live in a heap of records addressed by their index, so that aliasing    *)
(* between an element and a copy of it is observable.                      *)
(***************************************************************************)
EXTENDS Integers, Sequences, FiniteSets, TLC

\* ------------------------------------------------------------------ bounds
\* How many element calls (createNodeElement, fetchElement, the mutators) a
\* behaviour makes, and how many when every other facade method is called
\* in between.
MaxCalls == 3
MaxFacadeCalls == 2

\* ------------------------------------------------------- JavaScript values
\* A string is a sequence of one-character strings; a value is a number, a
\* string, undefined or NaN.
Num(n) == [t |-> "num", n |-> n, s |-> <<>>]
Str(s) == [t |-> "str", n |-> 0, s |-> s]
Undefined == [t |-> "undef", n |-> 0, s |-> <<>>]
NaN == [t |-> "nan", n |-> 0, s |-> <<>>]

DigitChars == <<"0", "1", "2", "3", "4", "5", "6", "7", "8", "9">>

IsDigit(c) == \E d \in 1..10 : DigitChars[d] = c

DigitValue(c) == (CHOOSE d \in 1..10 : DigitChars[d] = c) - 1

RECURSIVE NatToString(_)
NatToString(n) ==
    IF n < 10 THEN <<DigitChars[n + 1]>>
    ELSE NatToString(n \div 10) \o <<DigitChars[(n % 10) + 1]>>

\* Number.prototype.toString / String.prototype.toString, the conversions
\* the facade applies to property names, property values and coordinates.
toString(v) ==
    CASE v.t = "num" -> IF v.n < 0 THEN <<"-">> \o NatToString(-v.n) ELSE NatToString(v.n)
      [] v.t = "str" -> v.s
      [] v.t = "nan" -> <<"N", "a", "N">>
      [] OTHER -> <<"u", "n", "d", "e", "f", "i", "n", "e", "d">>

RECURSIVE SkipWhite(_)
SkipWhite(s) ==
    IF s # <<>> /\ Head(s) = " " THEN SkipWhite(Tail(s)) ELSE s

RECURSIVE LeadingDigits(_)
LeadingDigits(s) ==
    IF s # <<>> /\ IsDigit(Head(s)) THEN <<Head(s)>> \o LeadingDigits(Tail(s)) ELSE <<>>

RECURSIVE DigitsToNat(_, _)
DigitsToNat(s, acc) ==
    IF s = <<>> THEN acc ELSE DigitsToNat(Tail(s), acc * 10 + DigitValue(Head(s)))

\* The global parseInt(x) with the default radix: x is converted to a
\* string, leading white space is skipped, an optional sign is read, and the
\* longest prefix of decimal digits is the result; with no digit it is NaN.
\* (No input of the model starts with 0x, which parseInt reads as hexadecimal.)
parseInt(v) ==
    LET str == SkipWhite(toString(v))
        neg == str # <<>> /\ Head(str) = "-"
        body == IF str # <<>> /\ Head(str) \in {"-", "+"} THEN Tail(str) ELSE str
        ds == LeadingDigits(body)
    IN  IF ds = <<>> THEN NaN
        ELSE Num(IF neg THEN -DigitsToNat(ds, 0) ELSE DigitsToNat(ds, 0))

\* ------------------------------------------------------------------ inputs
PropertyNames == {Str(<<"1">>), Num(1), Str(<<"a">>)}
PropertyValues == {Str(<<"x">>), Num(7)}
\* The properties objects callers pass, each as its own-key enumeration
\* (Object.keys): integer-like keys first, then the others as inserted.
PropertiesInputs ==
    { <<>>,
      <<[k |-> Str(<<"a">>), v |-> Str(<<"y">>)]>>,
      <<[k |-> Str(<<"1">>), v |-> Num(7)], [k |-> Str(<<"a">>), v |-> Str(<<"x">>)]>> }
\* The coordinates nodes are created at, and those they are moved to.
NodeLatitudes == {Num(48)}
NodeLongitudes == {Num(2)}
Latitudes == {Num(-3)}
Longitudes == {Num(15)}
VersionInputs == {Num(2), Str(<<" ", "1", "2", "a">>), Str(<<"a">>), Undefined}
ClockReadings == {12}
\* The documents the server returns for an element: an untagged node and a
\* tagged way, such as the XML parser yields them (attribute values and tag
\* keys and values are strings; an element without tags has no tag array).
ServerElements ==
    { [type |-> "node", lat |-> Str(<<"4">>), lon |-> Str(<<"5">>), version |-> Str(<<"1">>),
       hasTag |-> FALSE, tags |-> <<>>],
      [type |-> "way", lat |-> Undefined, lon |-> Undefined, version |-> Str(<<"3">>),
       hasTag |-> TRUE,
       tags |-> <<[k |-> Str(<<"1">>), v |-> Str(<<"x">>)], [k |-> Str(<<"b">>), v |-> Str(<<"y">>)]>>] }
\* The options objects given to the constructor.
UserOptionsInputs ==
    { <<>>,
      [endpoint |-> <<"e", "/", "v", "/", "/">>],
      [endpoint |-> <<"e">>, oauthSecret |-> <<"k">>] }
ChangesetIds == {1, 2}
ChangesetTagInputs == {<<"t">>, <<"u">>}

\* -------------------------------------------------------------------- heap
\* heap[a] is the object at address a.  An element document
\* {osm: {$: {}, <type>: [inner]}, _type} is one "element" object pointing at
\* its inner element; the inner element {$: attrs, tag: [...]} points at its
\* attribute record and, when it has one, at its tag array; a tag array
\* holds the addresses of its tag entries {$: {k, v}}.
NoRef == 0

ElementObj(type, inner) == [kind |-> "element", type |-> type, inner |-> inner]
InnerObj(attrs, tag) == [kind |-> "inner", attrs |-> attrs, tag |-> tag]
AttrsObj(lat, lon, version, timestamp) ==
    [kind |-> "attrs", lat |-> lat, lon |-> lon, version |-> version, timestamp |-> timestamp]
TagListObj(items) == [kind |-> "taglist", items |-> items]
TagObj(k, v) == [kind |-> "tag", k |-> k, v |-> v]
PropsObj(entries) == [kind |-> "props", entries |-> entries]

\* element.osm[element._type][0]
InnerOf(h, element) == h[element].inner

\* The addresses of the tag entries of an inner element (none without a tag array).
TagItems(h, inner) == IF h[inner].tag = NoRef THEN <<>> ELSE h[h[inner].tag].items

\* Every mutable part reachable from an element.
Reach(h, element) ==
    LET inner == InnerOf(h, element)
    IN  {element, inner, h[inner].attrs}
          \cup (IF h[inner].tag = NoRef THEN {} ELSE {h[inner].tag})
          \cup {TagItems(h, inner)[i] : i \in 1..Len(TagItems(h, inner))}

\* The document an element denotes, addresses forgotten.
Val(h, element) ==
    LET inner == InnerOf(h, element)
        items == TagItems(h, inner)
    IN  [type |-> h[element].type,
         attrs |-> h[h[inner].attrs],
         hasTag |-> h[inner].tag # NoRef,
         tags |-> [i \in 1..Len(items) |-> [k |-> h[items[i]].k, v |-> h[items[i]].v]]]

NoVal == [type |-> "none", attrs |-> AttrsObj(Undefined, Undefined, Undefined, Undefined), hasTag |-> FALSE, tags |-> <<>>]

\* simpleObjectDeepClone(element): a copy of the element in which every
\* part is a fresh object.  The copy's address is Len(h) + 1.
simpleObjectDeepClone(h, element) ==
    LET n == Len(h)
        inner == InnerOf(h, element)
        hasTag == h[inner].tag # NoRef
        items == TagItems(h, inner)
    IN  h \o << ElementObj(h[element].type, n + 2),
                InnerObj(n + 3, IF hasTag THEN n + 4 ELSE NoRef),
                h[h[inner].attrs] >>
          \o (IF hasTag
              THEN <<TagListObj([i \in 1..Len(items) |-> n + 4 + i])>>
                     \o [i \in 1..Len(items) |-> h[items[i]]]
              ELSE <<>>)

\* simpleObjectDeepClone(properties): a fresh properties object.
clonePropertiesObject(h, properties) == Append(h, PropsObj(h[properties].entries))

\* Object.keys(properties)
ObjectKeys(h, properties) ==
    [i \in 1..Len(h[properties].entries) |-> h[properties].entries[i].k]

\* properties[propertyName]
Lookup(h, properties, propertyName) ==
    LET es == h[properties].entries
    IN  IF \E i \in 1..Len(es) : es[i].k = propertyName
        THEN es[CHOOSE i \in 1..Len(es) : es[i].k = propertyName].v
        ELSE Undefined

\* The result of a call: the heap it leaves and the address it returns
\* (NoRef when it throws).
Result(h, ret) == [heap |-> h, ret |-> ret]

\* A tag array literal [t1, ..., tn] of new entries {$: {k, v}} appended to
\* kept entries: allocates the entries, then the array; the array is last.
AllocTagList(h, kept, fresh) ==
    LET n == Len(h)
        h1 == h \o [i \in 1..Len(fresh) |-> TagObj(fresh[i].k, fresh[i].v)]
    IN  Append(h1, TagListObj(kept \o [i \in 1..Len(fresh) |-> n + i]))

\* ------------------------------------------------------------ the elements
\* The arrays a method builds and drops before it returns (the first tag: []
\* of createNodeElement, the result of filter inside an array literal) are
\* not allocated: nothing can reach them.
\* createNodeElement storing each property's value as given.
createNodeElement_rawValue(h, lat, lon, properties) ==
    LET keys == ObjectKeys(h, properties)
        h1 == AllocTagList(h, <<>>,
                [i \in 1..Len(keys) |->
                    [k |-> Str(toString(keys[i])), v |-> Lookup(h, properties, keys[i])]])
        tag == Len(h1)
        h2 == h1 \o << AttrsObj(lat, lon, Undefined, Undefined),
                       InnerObj(tag + 1, tag),
                       ElementObj("node", tag + 2) >>
    IN  Result(h2, Len(h2))

createNodeElement(h, lat, lon, properties) ==
    LET keys == ObjectKeys(h, properties)
        h1 == AllocTagList(h, <<>>,
                [i \in 1..Len(keys) |->
                    [k |-> Str(toString(keys[i])),
                     v |-> Str(toString(Lookup(h, properties, keys[i])))]])
        tag == Len(h1)
        h2 == h1 \o << AttrsObj(lat, lon, Undefined, Undefined),
                       InnerObj(tag + 1, tag),
                       ElementObj("node", tag + 2) >>
    IN  Result(h2, Len(h2))

\* Array.prototype.filter over tag entries: the kept addresses, in order.
RECURSIVE FilterTags(_, _, _)
FilterTags(h, items, dropped) ==
    IF items = <<>> THEN <<>>
    ELSE (IF h[Head(items)].k \in dropped THEN <<>> ELSE <<Head(items)>>)
           \o FilterTags(h, Tail(items), dropped)

SeqRange(s) == {s[i] : i \in 1..Len(s)}

\* setProperty without the filter of the tags that have the property's name.
setProperty_noFilter(h, element, propertyName, propertyValue) ==
    LET h1 == simpleObjectDeepClone(h, element)
        newElement == Len(h) + 1
        innerElement == InnerOf(h1, newElement)
        h2 == AllocTagList(h1, TagItems(h1, innerElement),
                <<[k |-> Str(toString(propertyName)), v |-> Str(toString(propertyValue))]>>)
    IN  Result([h2 EXCEPT ![innerElement].tag = Len(h2)], newElement)

\* setProperty filtering on the property name as given, not on its string.
setProperty_rawCompare(h, element, propertyName, propertyValue) ==
    LET h1 == simpleObjectDeepClone(h, element)
        newElement == Len(h) + 1
        innerElement == InnerOf(h1, newElement)
        filteredTags == IF h1[innerElement].tag # NoRef
                        THEN FilterTags(h1, TagItems(h1, innerElement), {propertyName})
                        ELSE <<>>
        h2 == AllocTagList(h1, filteredTags,
                <<[k |-> Str(toString(propertyName)), v |-> Str(toString(propertyValue))]>>)
    IN  Result([h2 EXCEPT ![innerElement].tag = Len(h2)], newElement)

\* setProperty working on the element it was given instead of on a clone.
setProperty_inPlace(h, element, propertyName, propertyValue) ==
    LET innerElement == InnerOf(h, element)
        filteredTags == IF h[innerElement].tag # NoRef
                        THEN FilterTags(h, TagItems(h, innerElement), {Str(toString(propertyName))})
                        ELSE <<>>
        h2 == AllocTagList(h, filteredTags,
                <<[k |-> Str(toString(propertyName)), v |-> Str(toString(propertyValue))]>>)
    IN  Result([h2 EXCEPT ![innerElement].tag = Len(h2)], element)

setProperty(h, element, propertyName, propertyValue) ==
    LET h1 == simpleObjectDeepClone(h, element)
        newElement == Len(h) + 1
        innerElement == InnerOf(h1, newElement)
        filteredTags == IF h1[innerElement].tag # NoRef
                        THEN FilterTags(h1, TagItems(h1, innerElement), {Str(toString(propertyName))})
                        ELSE <<>>
        h2 == AllocTagList(h1, filteredTags,
                <<[k |-> Str(toString(propertyName)), v |-> Str(toString(propertyValue))]>>)
    IN  Result([h2 EXCEPT ![innerElement].tag = Len(h2)], newElement)

\* setProperties keeping the tags it is about to set again.
setProperties_noFilter(h, element, properties) ==
    LET h1 == simpleObjectDeepClone(h, element)
        newElement == Len(h) + 1
        h2 == clonePropertiesObject(h1, properties)
        clonedProperties == Len(h2)
        propertiesName == ObjectKeys(h2, clonedProperties)
        innerElement == InnerOf(h2, newElement)
        formattedProperties ==
            [i \in 1..Len(propertiesName) |->
                [k |-> Str(toString(propertiesName[i])),
                 v |-> Str(toString(Lookup(h2, clonedProperties, propertiesName[i])))]]
        h3 == AllocTagList(h2, TagItems(h2, innerElement), formattedProperties)
    IN  Result([h3 EXCEPT ![innerElement].tag = Len(h3)], newElement)

setProperties(h, element, properties) ==
    LET h1 == simpleObjectDeepClone(h, element)
        newElement == Len(h) + 1
        h2 == clonePropertiesObject(h1, properties)
        clonedProperties == Len(h2)
        propertiesName == ObjectKeys(h2, clonedProperties)
        innerElement == InnerOf(h2, newElement)
        filteredTags == IF h2[innerElement].tag # NoRef
                        THEN FilterTags(h2, TagItems(h2, innerElement), SeqRange(propertiesName))
                        ELSE <<>>
        formattedProperties ==
            [i \in 1..Len(propertiesName) |->
                [k |-> Str(toString(propertiesName[i])),
                 v |-> Str(toString(Lookup(h2, clonedProperties, propertiesName[i])))]]
        h3 == AllocTagList(h2, filteredTags, formattedProperties)
    IN  Result([h3 EXCEPT ![innerElement].tag = Len(h3)], newElement)

\* innerElement.tag.filter throws a TypeError when the element has no tag
\* array; the comparison is with propertyName itself, not its string.
removeProperty(h, element, propertyName) ==
    LET h1 == simpleObjectDeepClone(h, element)
        newElement == Len(h) + 1
        innerElement == InnerOf(h1, newElement)
        filteredTags == FilterTags(h1, TagItems(h1, innerElement), {propertyName})
        h2 == AllocTagList(h1, filteredTags, <<>>)
    IN  IF h1[innerElement].tag = NoRef
        THEN Result(h1, NoRef)
        ELSE Result([h2 EXCEPT ![innerElement].tag = Len(h2)], newElement)

setCoordinates(h, element, lat, lon) ==
    LET h1 == simpleObjectDeepClone(h, element)
        newElement == Len(h) + 1
        attrs == h1[InnerOf(h1, newElement)].attrs
    IN  Result([h1 EXCEPT ![attrs].lat = Str(toString(lat)),
                          ![attrs].lon = Str(toString(lon))], newElement)

\* getCurrentIsoTimestamp(): the clock's reading as a string.
getCurrentIsoTimestamp(now) == Str(NatToString(now) \o <<"Z">>)

setTimestampToNow(h, element, now) ==
    LET h1 == simpleObjectDeepClone(h, element)
        newElement == Len(h) + 1
        attrs == h1[InnerOf(h1, newElement)].attrs
    IN  Result([h1 EXCEPT ![attrs].timestamp = getCurrentIsoTimestamp(now)], newElement)

\* setVersion storing the version in the timestamp attribute.
setVersion_wrongField(h, element, version) ==
    LET h1 == simpleObjectDeepClone(h, element)
        newElement == Len(h) + 1
        attrs == h1[InnerOf(h1, newElement)].attrs
    IN  Result([h1 EXCEPT ![attrs].timestamp = Str(toString(parseInt(version)))], newElement)

\* setVersion storing the version's string without parsing it.
setVersion_noParse(h, element, version) ==
    LET h1 == simpleObjectDeepClone(h, element)
        newElement == Len(h) + 1
        attrs == h1[InnerOf(h1, newElement)].attrs
    IN  Result([h1 EXCEPT ![attrs].version = Str(toString(version))], newElement)

setVersion(h, element, version) ==
    LET h1 == simpleObjectDeepClone(h, element)
        newElement == Len(h) + 1
        innerElement == InnerOf(h1, newElement)
        attrs == h1[innerElement].attrs
    IN  Result([h1 EXCEPT ![attrs].version = Str(toString(parseInt(version)))], newElement)

\* ------------------------------------------------------------------- state
VARIABLES
    heap,         \* the JavaScript objects
    calls,        \* the element calls made so far, with what each was given and returned
    ctorOptions,  \* the options the constructor was given
    options,      \* this._options
    auth,         \* this._auth
    lastRequest,  \* the endpoint and auth the last request was issued with
    changesets,   \* the server's changesets: open or closed, and their tags
    upd,          \* the updateChangesetTags call in flight
    sent,         \* the requests that call has sent to the server, in order
    stillOpen     \* what the last isChangesetStillOpen resolved to

elemVars == <<heap, calls>>
cfgVars == <<ctorOptions, options, auth>>
csVars == <<changesets, upd, sent, stillOpen>>
vars == <<heap, calls, ctorOptions, options, auth, lastRequest, changesets, upd, sent, stillOpen>>

\* ---------------------------------------------------------- configuration
\* defaultOptions.json
defaultOptions ==
    [endpoint |-> <<"d", "/">>, oauthConsumerKey |-> <<"c">>, oauthSecret |-> <<"s">>,
     oauthUserToken |-> <<>>, oauthUserTokenSecret |-> <<>>]

\* {...a, ...b}
ObjectSpread(a, b) ==
    [key \in DOMAIN a \cup DOMAIN b |-> IF key \in DOMAIN b THEN b[key] ELSE a[key]]

RECURSIVE removeTrailingSlashes(_)
removeTrailingSlashes(str) ==
    IF str # <<>> /\ str[Len(str)] = "/"
    THEN removeTrailingSlashes(SubSeq(str, 1, Len(str) - 1))
    ELSE str

\* osmAuth(config)
osmAuth(config) == [kind |-> "auth", config |-> config]

\* The constructor with the defaults spread over the options.
constructor_defaultsWin(userOptions) ==
    LET merged == ObjectSpread(userOptions, defaultOptions)
        opts == [merged EXCEPT !.endpoint = removeTrailingSlashes(merged.endpoint)]
    IN  [options |-> opts,
         auth |-> osmAuth([url |-> opts.endpoint,
                           oauth_consumer_key |-> opts.oauthConsumerKey,
                           oauth_secret |-> opts.oauthSecret,
                           oauth_token |-> opts.oauthUserToken,
                           oauth_token_secret |-> opts.oauthUserTokenSecret])]

\* What the constructor leaves in this._options and this._auth.
constructor(userOptions) ==
    LET merged == ObjectSpread(defaultOptions, userOptions)
        opts == [merged EXCEPT !.endpoint = removeTrailingSlashes(merged.endpoint)]
    IN  [options |-> opts,
         auth |-> osmAuth([url |-> opts.endpoint,
                           oauth_consumer_key |-> opts.oauthConsumerKey,
                           oauth_secret |-> opts.oauthSecret,
                           oauth_token |-> opts.oauthUserToken,
                           oauth_token_secret |-> opts.oauthUserTokenSecret])]

\* get endpoint()
endpoint == options.endpoint

NoAuth == [kind |-> "none", config |-> <<>>]
NoRequest == [endpoint |-> <<>>, auth |-> NoAuth, issued |-> FALSE]

\* A request handed to the request layer: every one is given this.endpoint,
\* and the signed ones this._auth.
Request(signed) ==
    lastRequest' = [endpoint |-> endpoint, auth |-> IF signed THEN auth ELSE NoAuth, issued |-> TRUE]

\* ----------------------------------------------------------- element calls
NoArgs ==
    [k |-> Undefined, v |-> Undefined, props |-> NoRef, entries |-> <<>>,
     lat |-> Undefined, lon |-> Undefined, version |-> Undefined, now |-> 0]

\* The elements the caller holds: everything a call has returned.
Elements == {calls[i].out : i \in 1..Len(calls)} \ {NoRef}

\* A call of a facade method on an element: the heap becomes the call's, and
\* the call is logged with the documents of its argument and of its result
\* as they were when it returned.
Return(op, in, args, res) ==
    /\ Len(calls) < MaxCalls
    /\ heap' = res.heap
    /\ calls' = Append(calls,
         [op |-> op, in |-> in, out |-> res.ret, args |-> args,
          pre |-> IF in = NoRef THEN NoVal ELSE Val(heap, in),
          post |-> IF res.ret = NoRef THEN NoVal ELSE Val(res.heap, res.ret)])

CreateNodeElement ==
    /\ \E lat \in NodeLatitudes, lon \in NodeLongitudes, P \in PropertiesInputs :
        Return("createNodeElement", NoRef,
               [NoArgs EXCEPT !.lat = lat, !.lon = lon, !.props = Len(heap) + 1, !.entries = P],
               createNodeElement(Append(heap, PropsObj(P)), lat, lon, Len(heap) + 1))
    /\ UNCHANGED <<cfgVars, lastRequest, csVars>>

\* The element a fetch resolves to, as the request layer builds it from the
\* server's document.
fetchElementRequest(h, doc) ==
    LET h1 == IF doc.hasTag THEN AllocTagList(h, <<>>, doc.tags) ELSE h
        tag == IF doc.hasTag THEN Len(h1) ELSE NoRef
        n == Len(h1)
        h2 == h1 \o << AttrsObj(doc.lat, doc.lon, doc.version, Undefined),
                       InnerObj(n + 1, tag),
                       ElementObj(doc.type, n + 2) >>
    IN  Result(h2, Len(h2))

FetchElement ==
    /\ \E doc \in ServerElements :
        Return("fetchElement", NoRef, NoArgs, fetchElementRequest(heap, doc))
    /\ Request(FALSE)
    /\ UNCHANGED <<cfgVars, csVars>>

SetProperty ==
    /\ \E e \in Elements, k \in PropertyNames, v \in PropertyValues :
        Return("setProperty", e, [NoArgs EXCEPT !.k = k, !.v = v], setProperty(heap, e, k, v))
    /\ UNCHANGED <<cfgVars, lastRequest, csVars>>

SetProperties ==
    /\ \E e \in Elements, P \in PropertiesInputs :
        Return("setProperties", e, [NoArgs EXCEPT !.props = Len(heap) + 1, !.entries = P],
               setProperties(Append(heap, PropsObj(P)), e, Len(heap) + 1))
    /\ UNCHANGED <<cfgVars, lastRequest, csVars>>

RemoveProperty ==
    /\ \E e \in Elements, k \in PropertyNames :
        Return("removeProperty", e, [NoArgs EXCEPT !.k = k], removeProperty(heap, e, k))
    /\ UNCHANGED <<cfgVars, lastRequest, csVars>>

SetCoordinates ==
    /\ \E e \in Elements, lat \in Latitudes, lon \in Longitudes :
        Return("setCoordinates", e, [NoArgs EXCEPT !.lat = lat, !.lon = lon],
               setCoordinates(heap, e, lat, lon))
    /\ UNCHANGED <<cfgVars, lastRequest, csVars>>

SetTimestampToNow ==
    /\ \E e \in Elements, now \in ClockReadings :
        Return("setTimestampToNow", e, [NoArgs EXCEPT !.now = now],
               setTimestampToNow(heap, e, now))
    /\ UNCHANGED <<cfgVars, lastRequest, csVars>>

SetVersion ==
    /\ \E e \in Elements, version \in VersionInputs :
        Return("setVersion", e, [NoArgs EXCEPT !.version = version],
               setVersion(heap, e, version))
    /\ UNCHANGED <<cfgVars, lastRequest, csVars>>

\* ---------------------------------------------------------------- requests
\* The facade methods that only hand their arguments to the request layer.
PlainRequest(signed) == Request(signed) /\ UNCHANGED <<elemVars, cfgVars, csVars>>

FetchNotes == PlainRequest(FALSE)
FetchNotesSearch == PlainRequest(FALSE)
FetchNote == PlainRequest(FALSE)
CreateNote == PlainRequest(TRUE)
CommentNote == PlainRequest(TRUE)
CloseNote == PlainRequest(TRUE)
ReopenNote == PlainRequest(TRUE)
CreateChangeset == PlainRequest(TRUE)
FetchRelationsForElement == PlainRequest(FALSE)
FetchWaysForNode == PlainRequest(FALSE)
SendElement == PlainRequest(TRUE)
FetchMapByBbox == PlainRequest(FALSE)
DeleteElement == PlainRequest(TRUE)
GetUserPreferences == PlainRequest(TRUE)
SetUserPreferences == PlainRequest(TRUE)
GetUserPreferenceByKey == PlainRequest(TRUE)
SetUserPreferenceByKey == PlainRequest(TRUE)
DeleteUserPreference == PlainRequest(TRUE)

\* -------------------------------------------------------------- changesets
Idle == [pc |-> "idle", id |-> 0, object |-> <<>>, isOpen |-> FALSE]

\* changesetCheckRequest resolves to the changeset's state as the server
\* holds it when it answers.
IsChangesetStillOpen ==
    /\ \E changesetId \in ChangesetIds : stillOpen' = changesets[changesetId].open
    /\ Request(TRUE)
    /\ UNCHANGED <<elemVars, cfgVars, changesets, upd, sent>>

\* updateChangesetTags going straight to the tag update.
updateChangesetTags_noCheck(changesetId, object) ==
    /\ upd.pc = "idle"
    /\ upd' = [pc |-> "checked", id |-> changesetId, object |-> object, isOpen |-> TRUE]
    /\ sent' = <<>>
    /\ Request(TRUE)
    /\ UNCHANGED <<elemVars, cfgVars, changesets, stillOpen>>

\* updateChangesetTags hands the call to updateChangesetTagsRequest, which
\* starts with the check of the changeset.
updateChangesetTags(changesetId, object) ==
    /\ upd.pc = "idle"
    /\ upd' = [pc |-> "check", id |-> changesetId, object |-> object, isOpen |-> FALSE]
    /\ sent' = <<>>
    /\ Request(TRUE)
    /\ UNCHANGED <<elemVars, cfgVars, changesets, stillOpen>>

UpdateChangesetTags ==
    \E changesetId \in ChangesetIds, object \in ChangesetTagInputs :
        updateChangesetTags(changesetId, object)

\* updateChangesetTagsRequest, first step: the check request is sent.
SendCheck ==
    /\ upd.pc = "check"
    /\ sent' = Append(sent, "check")
    /\ upd' = [upd EXCEPT !.pc = "awaitCheck"]
    /\ UNCHANGED <<elemVars, cfgVars, lastRequest, changesets, stillOpen>>

\* The server answers the check with the changeset's state at that moment.
CheckResponse ==
    /\ upd.pc = "awaitCheck"
    /\ upd' = [upd EXCEPT !.pc = "checked", !.isOpen = changesets[upd.id].open]
    /\ UNCHANGED <<elemVars, cfgVars, lastRequest, changesets, sent, stillOpen>>

\* Open: the tag update is sent.  Closed: the call fails without sending it.
AfterCheck ==
    /\ upd.pc = "checked"
    /\ IF upd.isOpen
       THEN /\ sent' = Append(sent, "update")
            /\ upd' = [upd EXCEPT !.pc = "awaitUpdate"]
       ELSE /\ sent' = sent
            /\ upd' = [upd EXCEPT !.pc = "rejected"]
    /\ UNCHANGED <<elemVars, cfgVars, lastRequest, changesets, stillOpen>>

\* The server applies the update to an open changeset and refuses it on a
\* closed one.
UpdateResponse ==
    /\ upd.pc = "awaitUpdate"
    /\ IF changesets[upd.id].open
       THEN /\ changesets' = [changesets EXCEPT ![upd.id].tags = upd.object]
            /\ upd' = [upd EXCEPT !.pc = "resolved"]
       ELSE /\ changesets' = changesets
            /\ upd' = [upd EXCEPT !.pc = "rejected"]
    /\ UNCHANGED <<elemVars, cfgVars, lastRequest, sent, stillOpen>>

\* The promise settles; the caller may call again.
Settle ==
    /\ upd.pc \in {"resolved", "rejected"}
    /\ upd' = [upd EXCEPT !.pc = "idle"]
    /\ UNCHANGED <<elemVars, cfgVars, lastRequest, changesets, sent, stillOpen>>

\* Another party, or the server's timeout, closes an open changeset.
CloseChangeset ==
    /\ \E changesetId \in ChangesetIds :
        /\ changesets[changesetId].open
        /\ changesets' = [changesets EXCEPT ![changesetId].open = FALSE]
    /\ UNCHANGED <<elemVars, cfgVars, lastRequest, upd, sent, stillOpen>>

\* ---------------------------------------------------------- specifications
InitElements ==
    /\ heap = <<>>
    /\ calls = <<>>

InitFacade(userOptions) ==
    /\ ctorOptions = userOptions
    /\ options = constructor(userOptions).options
    /\ auth = constructor(userOptions).auth
    /\ lastRequest = NoRequest

InitChangesets ==
    /\ changesets \in [ChangesetIds -> [open : BOOLEAN, tags : {<<>>}]]
    /\ upd = Idle
    /\ sent = <<>>
    /\ stillOpen = FALSE

\* The element calls of a facade built with the default options.
Init ==
    /\ InitElements
    /\ InitFacade(<<>>)
    /\ changesets = [id \in ChangesetIds |-> [open |-> TRUE, tags |-> <<>>]]
    /\ upd = Idle
    /\ sent = <<>>
    /\ stillOpen = FALSE

Next ==
    \/ CreateNodeElement
    \/ FetchElement
    \/ SetProperty
    \/ SetProperties
    \/ RemoveProperty
    \/ SetCoordinates
    \/ SetTimestampToNow
    \/ SetVersion

Spec == Init /\ [][Next]_vars

\* Every facade method, on a facade built with any of the options.
InitAnyFacade ==
    /\ InitElements
    /\ \E userOptions \in UserOptionsInputs : InitFacade(userOptions)
    /\ changesets = [id \in ChangesetIds |-> [open |-> TRUE, tags |-> <<>>]]
    /\ upd = Idle
    /\ sent = <<>>
    /\ stillOpen = FALSE

NextFacade ==
    \/ FetchNotes
    \/ FetchNotesSearch
    \/ FetchNote
    \/ CreateNote
    \/ CommentNote
    \/ CloseNote
    \/ ReopenNote
    \/ CreateChangeset
    \/ IsChangesetStillOpen
    \/ UpdateChangesetTags
    \/ FetchRelationsForElement
    \/ FetchWaysForNode
    \/ SendElement
    \/ FetchMapByBbox
    \/ DeleteElement
    \/ GetUserPreferences
    \/ SetUserPreferences
    \/ GetUserPreferenceByKey
    \/ SetUserPreferenceByKey
    \/ DeleteUserPreference
    \/ (Len(calls) < MaxFacadeCalls /\ Next)

SpecFacade == InitAnyFacade /\ [][NextFacade]_vars

\* The changeset calls against a server whose changesets others may close.
InitChangesetCalls ==
    /\ InitElements
    /\ InitFacade(<<>>)
    /\ InitChangesets

NextChangeset ==
    \/ IsChangesetStillOpen
    \/ UpdateChangesetTags
    \/ SendCheck
    \/ CheckResponse
    \/ AfterCheck
    \/ UpdateResponse
    \/ Settle
    \/ CloseChangeset

SpecChangeset == InitChangesetCalls /\ [][NextChangeset]_vars

\* ------------------------------------------------------------------ claims
CallIds == 1..Len(calls)

Mutators ==
    {"setProperty", "setProperties", "removeProperty", "setCoordinates",
     "setTimestampToNow", "setVersion"}

\* How many tags of a tag list have key k.
KeyCount(tags, k) == Cardinality({i \in 1..Len(tags) : tags[i].k = k})

\* A tag list without the tags whose key is in ks, order kept.
RECURSIVE WithoutKeys(_, _)
WithoutKeys(tags, ks) ==
    IF tags = <<>> THEN <<>>
    ELSE (IF Head(tags).k \in ks THEN <<>> ELSE <<Head(tags)>>) \o WithoutKeys(Tail(tags), ks)

\* The argument of call i is still the document it was when the call was made.
InputUnmodified(i) == calls[i].in # NoRef => Val(heap, calls[i].in) = calls[i].pre

\* C1: setProperty(E, k, v) returns an element whose tag list has exactly one
\* entry with key k (as a string), that entry has value v (as a string), and
\* every tag of E with another key is there unchanged; E is unmodified.
C1_SetPropertyUpserts ==
    \A i \in CallIds : calls[i].op = "setProperty" =>
        LET c == calls[i]
            key == Str(toString(c.args.k))
        IN  /\ c.out # NoRef
            /\ c.post.hasTag
            /\ KeyCount(c.post.tags, key) = 1
            /\ \A j \in 1..Len(c.post.tags) :
                  c.post.tags[j].k = key => c.post.tags[j].v = Str(toString(c.args.v))
            /\ WithoutKeys(c.post.tags, {key}) = WithoutKeys(c.pre.tags, {key})
            /\ InputUnmodified(i)

\* A setProperty with a numeric property name and a numeric value replaced
\* a tag of a way and kept another.
C1_Witness ==
    \E i \in CallIds :
        /\ calls[i].op = "setProperty"
        /\ calls[i].pre.type = "way"
        /\ calls[i].args.k.t = "num"
        /\ calls[i].args.v.t = "num"
        /\ \E j \in 1..Len(calls[i].pre.tags) :
              /\ calls[i].pre.tags[j].k = Str(toString(calls[i].args.k))
              /\ calls[i].pre.tags[j].v # Str(toString(calls[i].args.v))
        /\ WithoutKeys(calls[i].pre.tags, {Str(toString(calls[i].args.k))}) # <<>>

\* C2: removeProperty(setProperty(E, k, v), k) has no tag for k and its tag
\* list is E's without k; removing k once more returns an equal element.
C2_RemoveUndoesSet ==
    \A i, j \in CallIds :
        ( /\ calls[i].op = "setProperty"
          /\ calls[j].op = "removeProperty"
          /\ calls[j].in = calls[i].out
          /\ calls[j].args.k = calls[i].args.k ) =>
        LET key == Str(toString(calls[i].args.k))
        IN  /\ calls[j].out # NoRef
            /\ KeyCount(calls[j].post.tags, key) = 0
            /\ calls[j].post.tags = WithoutKeys(calls[i].pre.tags, {key})
            /\ \A l \in CallIds :
                  ( /\ calls[l].op = "removeProperty"
                    /\ calls[l].in = calls[j].out
                    /\ calls[l].args.k = calls[j].args.k ) => calls[l].post = calls[j].post

\* C3: no mutator changes its argument, and what it returns shares no part
\* with any other element the caller holds: every element is still the
\* document it was when it was returned, and no two elements share an inner
\* element, an attribute record, a tag list or a tag entry.
C3_DeepCopies ==
    /\ \A i \in CallIds :
        /\ InputUnmodified(i)
        /\ calls[i].out # NoRef => Val(heap, calls[i].out) = calls[i].post
        /\ calls[i].op \in Mutators /\ calls[i].out # NoRef => calls[i].out # calls[i].in
    /\ \A e1, e2 \in Elements : e1 # e2 => Reach(heap, e1) \cap Reach(heap, e2) = {}

\* A tagged element went through two mutators in a row, the second one a
\* tag edit of the first one's result.
C3_Witness ==
    \E i, j \in CallIds :
        /\ calls[i].op \in Mutators
        /\ calls[j].op \in {"setProperty", "setProperties", "removeProperty"}
        /\ calls[i].out # NoRef
        /\ calls[j].in = calls[i].out
        /\ calls[j].out # NoRef
        /\ Len(calls[i].pre.tags) > 0
        /\ calls[j].post.tags # calls[j].pre.tags

\* C4: no two tags of an element have the same key, whatever calls made it.
C4_UniqueTagKeys ==
    \A e \in Elements :
        \A i, j \in 1..Len(Val(heap, e).tags) :
            Val(heap, e).tags[i].k = Val(heap, e).tags[j].k => i = j

\* An element from createNodeElement with two tags was given, under a
\* numeric property name, a key it already had.
C4_Witness ==
    \E i, j \in CallIds :
        /\ calls[i].op = "createNodeElement"
        /\ Len(calls[i].post.tags) = 2
        /\ calls[j].op = "setProperty"
        /\ calls[j].in = calls[i].out
        /\ calls[j].args.k.t = "num"
        /\ KeyCount(calls[j].pre.tags, Str(toString(calls[j].args.k))) = 1

\* C5: setCoordinates changes nothing but lat and lon, setVersion nothing
\* but version, setTimestampToNow nothing but timestamp: tags, type and the
\* other attributes of the result are the argument's.
C5_NonTagMutatorsFrame ==
    \A i \in CallIds :
        LET c == calls[i]
        IN  /\ c.op = "setCoordinates" =>
                [c.post EXCEPT !.attrs.lat = c.pre.attrs.lat, !.attrs.lon = c.pre.attrs.lon] = c.pre
            /\ c.op = "setVersion" =>
                [c.post EXCEPT !.attrs.version = c.pre.attrs.version] = c.pre
            /\ c.op = "setTimestampToNow" =>
                [c.post EXCEPT !.attrs.timestamp = c.pre.attrs.timestamp] = c.pre

\* setVersion and setCoordinates were both called on tagged elements and
\* changed the attribute they are for.
C5_Witness ==
    /\ \E i \in CallIds :
        /\ calls[i].op = "setVersion"
        /\ Len(calls[i].pre.tags) > 0
        /\ calls[i].post.attrs.version # calls[i].pre.attrs.version
    /\ \E i \in CallIds :
        /\ calls[i].op = "setCoordinates"
        /\ Len(calls[i].pre.tags) > 0
        /\ calls[i].post.attrs.lat # calls[i].pre.attrs.lat
        /\ calls[i].post.attrs.lon # calls[i].pre.attrs.lon

\* C6: createNodeElement(lat, lon, properties) returns a node with the given
\* lat and lon and one tag {k, v} per key of properties, v the value's
\* string, in the keys' order, and no other tag.
C6_CreateNodeElement ==
    \A i \in CallIds : calls[i].op = "createNodeElement" =>
        LET c == calls[i]
        IN  /\ c.out # NoRef
            /\ c.post.type = "node"
            /\ c.post.attrs.lat = c.args.lat
            /\ c.post.attrs.lon = c.args.lon
            /\ c.post.hasTag
            /\ Len(c.post.tags) = Len(c.args.entries)
            /\ \A j \in 1..Len(c.args.entries) :
                  c.post.tags[j] = [k |-> c.args.entries[j].k,
                                    v |-> Str(toString(c.args.entries[j].v))]

\* A node was created from two properties, one of them with a numeric value.
C6_Witness ==
    \E i \in CallIds :
        /\ calls[i].op = "createNodeElement"
        /\ Len(calls[i].post.tags) = 2
        /\ \E j \in 1..2 : calls[i].args.entries[j].v.t = "num"

\* A heap holding just the element that denotes document d.
Materialize(d) ==
    LET tagged == IF d.hasTag THEN AllocTagList(<<>>, <<>>, d.tags) ELSE <<>>
        n == Len(tagged)
    IN  tagged \o <<d.attrs, InnerObj(n + 1, IF d.hasTag THEN n ELSE NoRef), ElementObj(d.type, n + 2)>>

\* setProperty(... setProperty(E, k1, v1) ..., kn, vn) for the entries given.
RECURSIVE SetEach(_, _, _)
SetEach(h, element, entries) ==
    IF entries = <<>> THEN Val(h, element)
    ELSE LET r == setProperty(h, element, Head(entries).k, Head(entries).v)
         IN  SetEach(r.heap, r.ret, Tail(entries))

\* The document of an element: its type, attributes and tags, an absent tag
\* array being no tags.
Document(d) == [type |-> d.type, attrs |-> d.attrs, tags |-> d.tags]

IsDecimalInteger(s) ==
    LET ds == IF s # <<>> /\ Head(s) = "-" THEN Tail(s) ELSE s
    IN  ds # <<>> /\ \A i \in 1..Len(ds) : IsDigit(ds[i])

\* The string of v has no integer at its start: after white space and a
\* sign, it does not go on with a digit.
NoLeadingInteger(v) ==
    LET str == SkipWhite(toString(v))
        body == IF str # <<>> /\ Head(str) \in {"-", "+"} THEN Tail(str) ELSE str
    IN  body = <<>> \/ ~IsDigit(Head(body))

\* C8 as stated: whatever version is given, the version setVersion stores
\* is the decimal representation of an integer, and the argument's version
\* is unchanged.
C8_VersionAlwaysNumeric ==
    \A i \in CallIds : calls[i].op = "setVersion" =>
        /\ calls[i].post.attrs.version.t = "str"
        /\ IsDecimalInteger(calls[i].post.attrs.version.s)
        /\ Val(heap, calls[i].in).attrs.version = calls[i].pre.attrs.version

\* C8 amended: setVersion coerces and does not validate.  The version it
\* stores is a string: the decimal representation of an integer when the
\* given version starts with one (the very number when it is an integer),
\* and "NaN" when it does not; the argument's version is unchanged.
C8_VersionIsParsedOrNaN ==
    \A i \in CallIds : calls[i].op = "setVersion" =>
        LET given == calls[i].args.version
            stored == calls[i].post.attrs.version
        IN  /\ stored.t = "str"
            /\ IF NoLeadingInteger(given)
               THEN stored.s = <<"N", "a", "N">>
               ELSE IsDecimalInteger(stored.s)
            /\ given.t = "num" => stored.s = toString(given)
            /\ Val(heap, calls[i].in).attrs.version = calls[i].pre.attrs.version

\* setVersion was given a version that is no number, on an element that
\* had a version, and one that only starts with a number.
C8_Witness ==
    /\ \E i \in CallIds :
        /\ calls[i].op = "setVersion"
        /\ calls[i].args.version = Str(<<"a">>)
        /\ calls[i].pre.attrs.version = Str(<<"3">>)
        /\ calls[i].post.attrs.version = Str(<<"N", "a", "N">>)
    /\ \E i \in CallIds :
        /\ calls[i].op = "setVersion"
        /\ calls[i].args.version = Str(<<" ", "1", "2", "a">>)
        /\ calls[i].post.attrs.version = Str(<<"1", "2">>)

\* The endpoint as configured: the user's when given, else the default.
ConfiguredEndpoint ==
    IF "endpoint" \in DOMAIN ctorOptions THEN ctorOptions.endpoint ELSE defaultOptions.endpoint

\* C9: the options are the user's over the defaults, the endpoint is the
\* configured one without its trailing slashes, and, whatever has been
\* called, the last request was issued with that endpoint.
C9_ConfigurationFixed ==
    /\ DOMAIN options = DOMAIN defaultOptions \cup DOMAIN ctorOptions
    /\ \A key \in DOMAIN options \ {"endpoint"} :
          options[key] = IF key \in DOMAIN ctorOptions THEN ctorOptions[key] ELSE defaultOptions[key]
    /\ Len(endpoint) <= Len(ConfiguredEndpoint)
    /\ endpoint = SubSeq(ConfiguredEndpoint, 1, Len(endpoint))
    /\ \A i \in (Len(endpoint) + 1)..Len(ConfiguredEndpoint) : ConfiguredEndpoint[i] = "/"
    /\ endpoint # <<>> => endpoint[Len(endpoint)] # "/"
    /\ auth.config.url = endpoint
    /\ lastRequest.issued =>
          /\ lastRequest.endpoint = endpoint
          /\ lastRequest.auth \in {NoAuth, auth}

\* A facade given an endpoint with trailing slashes and no secret has issued
\* a signed request, started a changeset update and run a mutator.
C9_Witness ==
    /\ "endpoint" \in DOMAIN ctorOptions
    /\ ctorOptions.endpoint # endpoint
    /\ options.oauthSecret = defaultOptions.oauthSecret
    /\ lastRequest.issued
    /\ lastRequest.auth = auth
    /\ upd.pc # "idle"
    /\ \E i \in CallIds : calls[i].op \in Mutators

\* C10: a call of updateChangesetTags sends the check first, sends the tag
\* update only after the check has answered that the changeset is open, and
\* sends no update when the check answers that it is closed.
C10_CheckBeforeUpdate ==
    /\ sent \in {<<>>, <<"check">>, <<"check", "update">>}
    /\ Len(sent) = 2 => upd.isOpen /\ upd.pc \in {"awaitUpdate", "resolved", "rejected", "idle"}
    /\ upd.pc \in {"checked", "rejected"} /\ ~upd.isOpen => sent = <<"check">>

\* The race: the check answered open, the changeset was closed before the
\* update arrived, and the server refused the update.
C10_Witness ==
    /\ upd.pc = "rejected"
    /\ upd.isOpen
    /\ sent = <<"check", "update">>
    /\ ~changesets[upd.id].open
    /\ changesets[upd.id].tags # upd.object

====
